---- MODULE Spec2Model ----
(***************************************************************************)
(* Model of the realtime-editor collaboration server (server/index.js):    *)
(* socket.io event handlers for join, text change, language change, state  *)
(* sync, caret change and disconnect, the two debounce timer maps, the     *)
(* in-memory roomState map, the MongoDB Room collection                    *)
(* (server/models/Room.js) and the POST /api/execute gateway; and of the   *)
(* browser client's socket listeners (client/src/pages/EditorPage.jsx,     *)
(* client/src/components/Editor.jsx).                                      *)
(*                                                                         *)
(* Node runs every handler and every timer/promise callback to completion  *)
(* on one event loop, so each handler segment between two awaits is one    *)
(* atomic action.  A durable write is in flight between the step that      *)
(* issues it and the step in which its promise settles; writes in flight   *)
(* may settle in any order.                                                *)
(*                                                                         *)
(* A mutation value is a record [n, v, by]: v is the string the client     *)
(* sent, n is the position of the mutation in the order in which the       *)
(* server accepted mutations (n = 0: a value that no mutation of this run  *)
(* set) and by is the socket that sent it.  The code reads v only.         *)
(***************************************************************************)
EXTENDS Naturals, Sequences, FiniteSets, TLC

\* ------------------------------------------------------------------ bounds
MaxMut == 3
MaxCur == 2

Sockets == {"s1", "s2"}
Rooms == {"", "r1", "r2"}
Users == {"ann", "bob"}
Texts == {"", "a"}
Langs == {"javascript", "python"}
NoCursor == <<>>
Cursors == {NoCursor, <<1, 1>>}

\* ------------------------------------------------------- program constants
DText == 1000
DLang == 500
DefaultCode == "// Write your code here"
DefaultLanguage == "javascript"

NoTimer == 0
NoUser == "undefined"
Undef == [n |-> 0, v |-> "undefined", by |-> ""]
NoResponse == [status |-> 0, output |-> "", message |-> ""]
AllDown == "All execution engines are currently down. Please try again in a moment."

VARIABLES
    conn,                  \* socket -> "open" | "closed"
    rooms,                 \* io.sockets.adapter.rooms: room -> members, in join order
    userSocketMap,         \* socket -> username
    join,                  \* socket -> position of its JOIN handler
    dbDebounce,            \* room -> handle of the text timer last armed
    saveLanguageDebounce,  \* room -> handle of the language timer last armed
    roomState,             \* room -> pending {code, language}
    timers,                \* armed timers
    writes,                \* durable writes in flight
    db,                    \* Room collection: room -> document
    sent,                  \* socket -> events emitted to it, in emit order
    accepted,              \* room -> last accepted value of each kind
    seq,                   \* number of mutations accepted so far
    recv,                  \* socket -> number of events of sent its client has handled
    clientsState,          \* socket -> EditorPage `clients` state of its client
    editor,                \* socket -> text in the editor of its client
    codeRef,               \* socket -> EditorPage codeRef.current of its client
    lang,                  \* socket -> EditorPage `language` state of its client
    outbox,                \* socket -> events its client emitted, not yet handled
    cursorsRef,            \* socket -> sockets whose caret its editor decorates
    lastCursorPositionRef, \* socket -> last known caret of each socket
    userColors,            \* socket -> sockets its client has given a colour
    exPc,                  \* /api/execute: position of the request handler
    exLog,                 \* /api/execute: runner calls made, with their outcomes
    exRes                  \* /api/execute: the response sent

\* The server's sockets, maps, timers and store.
server == <<conn, rooms, userSocketMap, join, dbDebounce, saveLanguageDebounce,
            roomState, timers, writes, db, sent, accepted, seq>>

\* The browser clients (EditorPage.jsx, Editor.jsx).
decor == <<cursorsRef, lastCursorPositionRef, userColors>>

client == <<recv, clientsState, editor, codeRef, lang, outbox, decor>>

\* The execution gateway (POST /api/execute).
exec == <<exPc, exLog, exRes>>

vars == <<server, client, exec>>

\* ----------------------------------------------------------------- helpers
Val(n, v, by) == [n |-> n, v |-> v, by |-> by]

Range(q) == {q[i] : i \in 1..Len(q)}

Remove(q, x) == SelectSeq(q, LAMBDA y : y # x)

NoRoomState == [present |-> FALSE, code |-> Undef, language |-> Undef]

NoDoc == [exists |-> FALSE, code |-> Undef, language |-> Undef]

NoJoin == [stage |-> "none", room |-> "", clients |-> <<>>, username |-> NoUser,
           result |-> "none"]

\* JS truthiness of an optional string: undefined and "" are falsy.
Truthy(val) == val # Undef /\ val.v # ""

Delay(kind) == IF kind = "text" THEN DText ELSE DLang

getAllConnectedClients(rs, usm, roomId) ==
    [i \in 1..Len(rs[roomId]) |->
        [socketId |-> rs[roomId][i], username |-> usm[rs[roomId][i]]]]

\* Emit with the event put in front of what the socket has yet to read.
EmitFront(log, to, e) ==
    [t \in Sockets |-> IF t \in to /\ conn[t] = "open" THEN <<e>> \o log[t] ELSE log[t]]

\* emit of event e to the sockets in `to`: a closed socket receives nothing.
Emit(log, to, e) ==
    [t \in Sockets |-> IF t \in to /\ conn[t] = "open" THEN Append(log[t], e) ELSE log[t]]

\* Room.findOneAndUpdate({roomId}, {field: value}, {upsert: true}); an insert
\* fills the other field with the schema default.
Upsert(d, roomId, kind, value) ==
    LET old == IF d[roomId].exists THEN d[roomId]
               ELSE [exists |-> TRUE, code |-> Val(0, DefaultCode, ""),
                     language |-> Val(0, DefaultLanguage, "")]
    IN [d EXCEPT ![roomId] = IF kind = "text" THEN [old EXCEPT !.code = value]
                             ELSE [old EXCEPT !.language = value]]

\* Documents an earlier run of the server may have left in the collection.
StoredDocs == {NoDoc, [exists |-> TRUE, code |-> Val(0, "x", ""), language |-> Val(0, "python", "")]}

Init ==
    /\ conn = [s \in Sockets |-> "open"]
    /\ rooms = [r \in Rooms |-> <<>>]
    /\ userSocketMap = [s \in Sockets |-> NoUser]
    /\ join = [s \in Sockets |-> NoJoin]
    /\ dbDebounce = [r \in Rooms |-> NoTimer]
    /\ saveLanguageDebounce = [r \in Rooms |-> NoTimer]
    /\ roomState = [r \in Rooms |-> NoRoomState]
    /\ timers = {}
    /\ writes = {}
    /\ db \in {d \in [Rooms -> StoredDocs] : \A r \in Rooms \ {"r1"} : d[r] = NoDoc}
    /\ sent = [s \in Sockets |-> <<>>]
    /\ accepted = [r \in Rooms |-> [code |-> Undef, language |-> Undef]]
    /\ seq = 0
    /\ recv = [s \in Sockets |-> 0]
    /\ clientsState = [s \in Sockets |-> <<>>]
    /\ editor = [s \in Sockets |-> Val(0, DefaultCode, "")]
    /\ codeRef = [s \in Sockets |-> Undef]
    /\ lang = [s \in Sockets |-> Val(0, DefaultLanguage, "")]
    /\ outbox = [s \in Sockets |-> <<>>]
    /\ cursorsRef = [s \in Sockets |-> {}]
    /\ lastCursorPositionRef = [s \in Sockets |-> [c \in Sockets |-> NoCursor]]
    /\ userColors = [s \in Sockets |-> {}]
    /\ exPc = "idle"
    /\ exLog = <<>>
    /\ exRes = NoResponse

\* -------------------------------------------------------------------- JOIN
JoinedEvt(clients, username, s) ==
    [type |-> "joined", clients |-> clients, username |-> username, socketId |-> s]

\* clients.forEach(({socketId}) => io.to(socketId).emit(JOINED, ...))
Announce(log, clients, username, s) ==
    Emit(log, {clients[i].socketId : i \in 1..Len(clients)}, JoinedEvt(clients, username, s))

\* JOIN handler up to its first await (or to its end when the room has other members).
JoinStart(s, roomId, username) ==
    /\ conn[s] = "open"
    /\ join[s].stage = "none"
    /\ userSocketMap' = [userSocketMap EXCEPT ![s] = username]
    /\ rooms' = [rooms EXCEPT ![roomId] = Append(@, s)]
    /\ LET clients == getAllConnectedClients(rooms', userSocketMap', roomId)
       IN IF Len(clients) = 1
          THEN /\ join' = [join EXCEPT ![s] = [stage |-> "find", room |-> roomId,
                                clients |-> clients, username |-> username,
                                result |-> "none"]]
               /\ sent' = sent
          ELSE /\ join' = [join EXCEPT ![s] = [stage |-> "done", room |-> roomId,
                                clients |-> clients, username |-> username,
                                result |-> "skipped"]]
               /\ sent' = Announce(sent, clients, username, s)
    /\ UNCHANGED <<conn, dbDebounce, saveLanguageDebounce, roomState, timers, writes,
                   db, accepted, seq>>

CodeEvt(value) == [type |-> "code", code |-> value, cursor |-> NoCursor,
                   socketId |-> "", username |-> NoUser]

LangEvt(value) == [type |-> "language", language |-> value]

\* LoadFound replaying the schema defaults instead of the stored document.
LoadFoundDefaults(s) ==
    LET roomId == join[s].room
        toRoom == Range(rooms[roomId])
    IN /\ join[s].stage = "find"
       /\ db[roomId].exists
       /\ sent' = Announce(Emit(Emit(sent, toRoom, CodeEvt(Val(0, DefaultCode, ""))),
                                toRoom, LangEvt(Val(0, DefaultLanguage, ""))),
                           join[s].clients, join[s].username, s)
       /\ join' = [join EXCEPT ![s].stage = "done", ![s].result = "found"]
       /\ UNCHANGED <<conn, rooms, userSocketMap, dbDebounce, saveLanguageDebounce,
                      roomState, timers, writes, db, accepted, seq>>

\* Room.findOne resolved with a document: replay it to the room, then announce.
LoadFound(s) ==
    LET roomId == join[s].room
        room == db[roomId]
        toRoom == Range(rooms[roomId])
    IN /\ join[s].stage = "find"
       /\ room.exists
       /\ sent' = Announce(Emit(Emit(sent, toRoom, CodeEvt(room.code)),
                                toRoom, LangEvt(room.language)),
                           join[s].clients, join[s].username, s)
       /\ join' = [join EXCEPT ![s].stage = "done", ![s].result = "found"]
       /\ UNCHANGED <<conn, rooms, userSocketMap, dbDebounce, saveLanguageDebounce,
                      roomState, timers, writes, db, accepted, seq>>

\* Room.findOne resolved with null: Room.create is issued.
LoadMissing(s) ==
    /\ join[s].stage = "find"
    /\ ~db[join[s].room].exists
    /\ join' = [join EXCEPT ![s].stage = "create"]
    /\ UNCHANGED <<conn, rooms, userSocketMap, dbDebounce, saveLanguageDebounce,
                   roomState, timers, writes, db, sent, accepted, seq>>

\* CreateOk putting the defaults into roomState as well.
CreateOkInMemory(s) ==
    LET roomId == join[s].room
    IN /\ join[s].stage = "create"
       /\ roomId # ""
       /\ ~db[roomId].exists
       /\ db' = [db EXCEPT ![roomId] = [exists |-> TRUE, code |-> Val(0, DefaultCode, ""),
                                        language |-> Val(0, DefaultLanguage, "")]]
       /\ roomState' = [roomState EXCEPT ![roomId] =
                            [present |-> TRUE, code |-> Val(0, DefaultCode, ""),
                             language |-> Val(0, DefaultLanguage, "")]]
       /\ sent' = Announce(sent, join[s].clients, join[s].username, s)
       /\ join' = [join EXCEPT ![s].stage = "done", ![s].result = "created"]
       /\ UNCHANGED <<conn, rooms, userSocketMap, dbDebounce, saveLanguageDebounce,
                      timers, writes, accepted, seq>>

\* Room.create resolved: the default document is stored, then announce.  The
\* schema requires roomId, which an empty string does not satisfy.
CreateOk(s) ==
    LET roomId == join[s].room
    IN /\ join[s].stage = "create"
       /\ roomId # ""
       /\ ~db[roomId].exists
       /\ db' = [db EXCEPT ![roomId] = [exists |-> TRUE, code |-> Val(0, DefaultCode, ""),
                                        language |-> Val(0, DefaultLanguage, "")]]
       /\ sent' = Announce(sent, join[s].clients, join[s].username, s)
       /\ join' = [join EXCEPT ![s].stage = "done", ![s].result = "created"]
       /\ UNCHANGED <<conn, rooms, userSocketMap, dbDebounce, saveLanguageDebounce,
                      roomState, timers, writes, accepted, seq>>

\* Room.create rejected because an upsert has inserted the document meanwhile
\* (roomId is unique): the catch block logs, then announce.
CreateDuplicate(s) ==
    /\ join[s].stage = "create"
    /\ db[join[s].room].exists
    /\ sent' = Announce(sent, join[s].clients, join[s].username, s)
    /\ join' = [join EXCEPT ![s].stage = "done", ![s].result = "error"]
    /\ UNCHANGED <<conn, rooms, userSocketMap, dbDebounce, saveLanguageDebounce,
                   roomState, timers, writes, db, accepted, seq>>

\* Room.create rejected by the schema's validation, roomId being empty: the
\* catch block logs, then announce.
CreateInvalid(s) ==
    /\ join[s].stage = "create"
    /\ join[s].room = ""
    /\ sent' = Announce(sent, join[s].clients, join[s].username, s)
    /\ join' = [join EXCEPT ![s].stage = "done", ![s].result = "error"]
    /\ UNCHANGED <<conn, rooms, userSocketMap, dbDebounce, saveLanguageDebounce,
                   roomState, timers, writes, db, accepted, seq>>

\* Room.findOne or Room.create rejected by a store error: the catch block
\* logs, then announce.
LoadFail(s) ==
    /\ join[s].stage \in {"find", "create"}
    /\ sent' = Announce(sent, join[s].clients, join[s].username, s)
    /\ join' = [join EXCEPT ![s].stage = "done", ![s].result = "error"]
    /\ UNCHANGED <<conn, rooms, userSocketMap, dbDebounce, saveLanguageDebounce,
                   roomState, timers, writes, db, accepted, seq>>

\* ------------------------------------------------------------- CODE_CHANGE
\* clearTimeout(handle) followed by setTimeout: the timer the slot names is
\* disarmed (a no-op when it has fired), a new one is armed.
\* Rearm disarming every timer of the kind, whatever its room.
RearmKind(ts, handle, t) == {u \in ts : u.kind # t.kind} \cup {t}

\* Rearm disarming every timer of the room, whatever its kind.
RearmRoom(ts, handle, t) == {u \in ts : u.room # t.room} \cup {t}

Rearm(ts, handle, t) == {u \in ts : u.id # handle} \cup {t}

Timer(id, roomId, kind, value) ==
    [id |-> id, room |-> roomId, kind |-> kind, value |-> value]

\* CodeChange emitting with io.to(roomId), the sender included.
CodeChangeToAll(s, roomId, text, cursor) ==
    LET value == Val(seq + 1, text, s)
    IN /\ conn[s] = "open"
       /\ s \in Range(rooms[roomId])
       /\ seq < MaxMut
       /\ sent' = Emit(sent, Range(rooms[roomId]),
                       [type |-> "code", code |-> value, cursor |-> cursor,
                        socketId |-> s, username |-> userSocketMap[s]])
       /\ timers' = Rearm(timers, dbDebounce[roomId], Timer(seq + 1, roomId, "text", value))
       /\ roomState' = [roomState EXCEPT ![roomId] = [@ EXCEPT !.present = TRUE,
                                                               !.code = value]]
       /\ dbDebounce' = [dbDebounce EXCEPT ![roomId] = seq + 1]
       /\ accepted' = [accepted EXCEPT ![roomId].code = value]
       /\ seq' = seq + 1
       /\ UNCHANGED <<conn, rooms, userSocketMap, join, saveLanguageDebounce, writes, db>>

\* socket.on(CODE_CHANGE): the handler does not look at the sender's rooms;
\* socket.in(roomId).emit reaches every member of the room but the sender.
CodeChangeHandler(s, roomId, text, cursor) ==
    LET value == Val(seq + 1, text, s)
    IN /\ conn[s] = "open"
       /\ seq < MaxMut
       /\ sent' = Emit(sent, Range(rooms[roomId]) \ {s},
                       [type |-> "code", code |-> value, cursor |-> cursor,
                        socketId |-> s, username |-> userSocketMap[s]])
       /\ timers' = Rearm(timers, dbDebounce[roomId], Timer(seq + 1, roomId, "text", value))
       /\ roomState' = [roomState EXCEPT ![roomId] = [@ EXCEPT !.present = TRUE,
                                                               !.code = value]]
       /\ dbDebounce' = [dbDebounce EXCEPT ![roomId] = seq + 1]
       /\ accepted' = [accepted EXCEPT ![roomId].code = value]
       /\ seq' = seq + 1
       /\ UNCHANGED <<conn, rooms, userSocketMap, join, saveLanguageDebounce, writes, db>>

\* A text-change sent by a member of the room.
CodeChange(s, roomId, text, cursor) ==
    s \in Range(rooms[roomId]) /\ CodeChangeHandler(s, roomId, text, cursor)

\* --------------------------------------------------------- LANGUAGE_CHANGE
\* LanguageChange emitting with socket.in(roomId), the sender excluded.
LanguageChangeToOthers(s, roomId, language) ==
    LET value == Val(seq + 1, language, s)
    IN /\ conn[s] = "open"
       /\ s \in Range(rooms[roomId])
       /\ seq < MaxMut
       /\ sent' = Emit(sent, Range(rooms[roomId]) \ {s}, LangEvt(value))
       /\ timers' = Rearm(timers, saveLanguageDebounce[roomId],
                          Timer(seq + 1, roomId, "language", value))
       /\ roomState' = [roomState EXCEPT ![roomId] = [@ EXCEPT !.present = TRUE,
                                                               !.language = value]]
       /\ saveLanguageDebounce' = [saveLanguageDebounce EXCEPT ![roomId] = seq + 1]
       /\ accepted' = [accepted EXCEPT ![roomId].language = value]
       /\ seq' = seq + 1
       /\ UNCHANGED <<conn, rooms, userSocketMap, join, dbDebounce, writes, db>>

\* socket.on(LANGUAGE_CHANGE): io.to(roomId).emit reaches every member of the
\* room, the sender included; the language timer of the room is re-armed.
LanguageChangeHandler(s, roomId, language) ==
    LET value == Val(seq + 1, language, s)
    IN /\ conn[s] = "open"
       /\ seq < MaxMut
       /\ sent' = Emit(sent, Range(rooms[roomId]), LangEvt(value))
       /\ timers' = Rearm(timers, saveLanguageDebounce[roomId],
                          Timer(seq + 1, roomId, "language", value))
       /\ roomState' = [roomState EXCEPT ![roomId] = [@ EXCEPT !.present = TRUE,
                                                               !.language = value]]
       /\ saveLanguageDebounce' = [saveLanguageDebounce EXCEPT ![roomId] = seq + 1]
       /\ accepted' = [accepted EXCEPT ![roomId].language = value]
       /\ seq' = seq + 1
       /\ UNCHANGED <<conn, rooms, userSocketMap, join, dbDebounce, writes, db>>

\* A language-change sent by a member of the room.
LanguageChange(s, roomId, language) ==
    s \in Range(rooms[roomId]) /\ LanguageChangeHandler(s, roomId, language)

\* ------------------------------------------------------------------ timers
Write(id, roomId, kind, value, src) ==
    [id |-> id, room |-> roomId, kind |-> kind, value |-> value, src |-> src]

\* Timers expire in the order of their deadlines: t, armed after u, can expire
\* before u only if its delay is shorter.
MayExpire(t) ==
    \A u \in timers : u.id < t.id => Delay(t.kind) < Delay(u.kind)

\* The timer callback runs up to its await: findOneAndUpdate is issued with
\* the value the callback closed over.
TimerExpires(t) ==
    /\ t \in timers
    /\ MayExpire(t)
    /\ timers' = timers \ {t}
    /\ writes' = writes \cup {Write(t.id, t.room, t.kind, t.value, "timer")}
    /\ UNCHANGED <<conn, rooms, userSocketMap, join, dbDebounce, saveLanguageDebounce,
                   roomState, db, sent, accepted, seq>>

\* findOneAndUpdate resolved.  The rest of a timer callback runs: delete
\* dbDebounce[roomId]; delete roomState[roomId]   (text)
\* delete saveLanguageDebounce[roomId]             (language)
\* A write issued by the disconnecting handler has no continuation.
WriteOk(w) ==
    /\ w \in writes
    /\ writes' = writes \ {w}
    /\ db' = Upsert(db, w.room, w.kind, w.value)
    /\ dbDebounce' = IF w.src = "timer" /\ w.kind = "text"
                     THEN [dbDebounce EXCEPT ![w.room] = NoTimer] ELSE dbDebounce
    /\ roomState' = IF w.src = "timer" /\ w.kind = "text"
                    THEN [roomState EXCEPT ![w.room] = NoRoomState] ELSE roomState
    /\ saveLanguageDebounce' = IF w.src = "timer" /\ w.kind = "language"
                               THEN [saveLanguageDebounce EXCEPT ![w.room] = NoTimer]
                               ELSE saveLanguageDebounce
    /\ UNCHANGED <<conn, rooms, userSocketMap, join, timers, sent, accepted, seq>>

\* WriteFail telling the members of the room that the save failed.
WriteFailReported(w) ==
    /\ w \in writes
    /\ writes' = writes \ {w}
    /\ sent' = Emit(sent, Range(rooms[w.room]), [type |-> "error", room |-> w.room])
    /\ UNCHANGED <<conn, rooms, userSocketMap, join, dbDebounce, saveLanguageDebounce,
                   roomState, timers, db, accepted, seq>>

\* findOneAndUpdate rejected: the catch block logs and changes nothing.
WriteFail(w) ==
    /\ w \in writes
    /\ writes' = writes \ {w}
    /\ UNCHANGED <<conn, rooms, userSocketMap, join, dbDebounce, saveLanguageDebounce,
                   roomState, timers, db, sent, accepted, seq>>

\* ----------------------------------------------------------- disconnecting
\* The flush of one kind: if the slot holds a handle, disarm its timer, empty
\* the slot, and write the pending value when it is truthy.
FlushTimers(ts, handle) == {u \in ts : handle = NoTimer \/ u.id # handle}

\* FlushWrites writing only when the departing socket is the room's last member.
FlushWritesWhenLast(roomId, kind, handle, pending) ==
    IF handle # NoTimer /\ Truthy(pending) /\ Len(rooms[roomId]) = 1
    THEN {Write(pending.n, roomId, kind, pending, "flush")}
    ELSE {}

FlushWrites(roomId, kind, handle, pending) ==
    IF handle # NoTimer /\ Truthy(pending)
    THEN {Write(pending.n, roomId, kind, pending, "flush")}
    ELSE {}

\* Disconnecting without `delete userSocketMap[socket.id]`.
DisconnectingKeepsName(s) ==
    LET mine == {r \in Rooms : s \in Range(rooms[r])}
    IN /\ conn[s] = "open"
       /\ sent' = [t \in Sockets |->
                     IF t # s /\ conn[t] = "open" /\ \E r \in mine : t \in Range(rooms[r])
                     THEN Append(sent[t], [type |-> "disconnected", socketId |-> s,
                                           username |-> userSocketMap[s]])
                     ELSE sent[t]]
       /\ timers' = {u \in timers :
                       \/ u.room \notin mine
                       \/ /\ u \in FlushTimers(timers, dbDebounce[u.room])
                          /\ u \in FlushTimers(timers, saveLanguageDebounce[u.room])}
       /\ writes' = writes
                    \cup UNION {FlushWrites(r, "text", dbDebounce[r], roomState[r].code)
                                   : r \in mine}
                    \cup UNION {FlushWrites(r, "language", saveLanguageDebounce[r],
                                            roomState[r].language) : r \in mine}
       /\ dbDebounce' = [r \in Rooms |-> IF r \in mine THEN NoTimer ELSE dbDebounce[r]]
       /\ saveLanguageDebounce' =
              [r \in Rooms |-> IF r \in mine THEN NoTimer ELSE saveLanguageDebounce[r]]
       /\ userSocketMap' = userSocketMap
       /\ rooms' = [r \in Rooms |-> Remove(rooms[r], s)]
       /\ conn' = [conn EXCEPT ![s] = "closed"]
       /\ UNCHANGED <<join, roomState, db, accepted, seq>>

\* socket.on('disconnecting'): for every room of the socket, announce the
\* departure and flush; then drop the username; socket.io then removes the
\* socket from its rooms.
Disconnecting(s) ==
    LET mine == {r \in Rooms : s \in Range(rooms[r])}
    IN /\ conn[s] = "open"
       /\ sent' = [t \in Sockets |->
                     IF t # s /\ conn[t] = "open" /\ \E r \in mine : t \in Range(rooms[r])
                     THEN Append(sent[t], [type |-> "disconnected", socketId |-> s,
                                           username |-> userSocketMap[s]])
                     ELSE sent[t]]
       /\ timers' = {u \in timers :
                       \/ u.room \notin mine
                       \/ /\ u \in FlushTimers(timers, dbDebounce[u.room])
                          /\ u \in FlushTimers(timers, saveLanguageDebounce[u.room])}
       /\ writes' = writes
                    \cup UNION {FlushWrites(r, "text", dbDebounce[r], roomState[r].code)
                                   : r \in mine}
                    \cup UNION {FlushWrites(r, "language", saveLanguageDebounce[r],
                                            roomState[r].language) : r \in mine}
       /\ dbDebounce' = [r \in Rooms |-> IF r \in mine THEN NoTimer ELSE dbDebounce[r]]
       /\ saveLanguageDebounce' =
              [r \in Rooms |-> IF r \in mine THEN NoTimer ELSE saveLanguageDebounce[r]]
       /\ userSocketMap' = [userSocketMap EXCEPT ![s] = NoUser]
       /\ rooms' = [r \in Rooms |-> Remove(rooms[r], s)]
       /\ conn' = [conn EXCEPT ![s] = "closed"]
       /\ UNCHANGED <<join, roomState, db, accepted, seq>>

\* --------------------------------------------------------------- SYNC_CODE
\* io.to(socketId).emit(CODE_CHANGE, {code}); the language follows when it
\* is truthy.  The values are relayed as the client sent them.
SyncCode(s, socketId, code, language) ==
    /\ conn[s] = "open"
    /\ sent' = IF Truthy(language)
               THEN Emit(Emit(sent, {socketId}, CodeEvt(code)), {socketId}, LangEvt(language))
               ELSE Emit(sent, {socketId}, CodeEvt(code))
    /\ UNCHANGED <<conn, rooms, userSocketMap, join, dbDebounce, saveLanguageDebounce,
                   roomState, timers, writes, db, accepted, seq>>

\* ----------------------------------------------------------- CURSOR_CHANGE
CursorEvt(s, cursor, username) ==
    [type |-> "cursor", socketId |-> s, cursor |-> cursor, username |-> username]

\* CursorChange as a copy of the text handler: the caret is kept as pending
\* state and a timer is armed for it.
CursorChangeArming(s, roomId, cursor) ==
    /\ conn[s] = "open"
    /\ sent' = Emit(sent, Range(rooms[roomId]) \ {s}, CursorEvt(s, cursor, userSocketMap[s]))
    /\ timers' = Rearm(timers, dbDebounce[roomId],
                       Timer(seq + 1, roomId, "text", Val(seq + 1, "", s)))
    /\ dbDebounce' = [dbDebounce EXCEPT ![roomId] = seq + 1]
    /\ UNCHANGED <<conn, rooms, userSocketMap, join, saveLanguageDebounce,
                   roomState, writes, db, accepted, seq>>

\* socket.in(roomId).emit(CURSOR_CHANGE, {socketId, cursor, username})
CursorChange(s, roomId, cursor) ==
    /\ conn[s] = "open"
    /\ sent' = Emit(sent, Range(rooms[roomId]) \ {s}, CursorEvt(s, cursor, userSocketMap[s]))
    /\ UNCHANGED <<conn, rooms, userSocketMap, join, dbDebounce, saveLanguageDebounce,
                   roomState, timers, writes, db, accepted, seq>>

\* ------------------------------------------------------------------ client
\* What the client of socket s emits goes to the server in emit order.
CodeMsg(roomId, code, cursor) ==
    [type |-> "code", roomId |-> roomId, code |-> code, cursor |-> cursor]

LangMsg(roomId, language) == [type |-> "language", roomId |-> roomId, language |-> language]

SyncMsg(code, socketId, language) ==
    [type |-> "sync", code |-> code, socketId |-> socketId, language |-> language]

\* `language` as the JOINED listener sees it: the listener is created once, by
\* the mount effect, and closes over the state of the first render.
ClosureLanguage == Val(0, DefaultLanguage, "")

\* Caret position of the editor after setValue.
Home == <<1, 1>>

\* The member list without every entry that has the username of the event.
RemoveClientByName(list, e) == SelectSeq(list, LAMBDA c : c.username # e.username)

\* prev.filter(client => client.socketId !== socketId)
RemoveClient(list, e) == SelectSeq(list, LAMBDA c : c.socketId # e.socketId)

\* JOINED listener: setClients(clients), then SYNC_CODE to the joiner with
\* codeRef.current and the closure's language.
OnJoined(s, e) ==
    /\ clientsState' = [clientsState EXCEPT ![s] = e.clients]
    /\ outbox' = [outbox EXCEPT ![s] = Append(@, SyncMsg(codeRef[s], e.socketId,
                                                         ClosureLanguage))]
    /\ UNCHANGED <<editor, codeRef, lang, decor>>

\* LANGUAGE_CHANGE listener: setLanguage(language)
OnLanguage(s, e) ==
    /\ lang' = [lang EXCEPT ![s] = e.language]
    /\ UNCHANGED <<clientsState, editor, codeRef, outbox, decor>>

\* DISCONNECTED listeners: the entry of the departed socket leaves the list
\* (EditorPage); its decoration is removed and its cursorsRef entry deleted
\* (Editor).  lastCursorPositionRef and userColors keep their entries.
OnDisconnected(s, e) ==
    /\ clientsState' = [clientsState EXCEPT ![s] = RemoveClient(@, e)]
    /\ cursorsRef' = [cursorsRef EXCEPT ![s] = @ \ {e.socketId}]
    /\ UNCHANGED <<editor, codeRef, lang, outbox, lastCursorPositionRef, userColors>>

\* "Re-apply cursors": every socket with a last known caret and a colour gets
\* its decoration again.
Reapply(shown, last, colours) ==
    shown \cup {c \in Sockets : last[c] # NoCursor /\ c \in colours}

\* The sender's caret, when the event names a sender and carries a caret,
\* becomes its last known caret.
WithSender(last, e) ==
    IF e.socketId \in Sockets /\ e.cursor # NoCursor
    THEN [last EXCEPT ![e.socketId] = e.cursor] ELSE last

\* CODE_CHANGE listener: a text that differs from the editor's replaces it
\* (setValue); the editor then reports a content change, so onCodeChange
\* stores the text in codeRef and emits CODE_CHANGE with the caret; then the
\* sender's caret is recorded and the carets are re-applied.  setValue of a
\* missing text (null, undefined) leaves the text as it is and either throws,
\* which ends the listener, or returns, and the listener goes on.
OnCode(s, e) ==
    IF e.code # Undef /\ e.code.v # editor[s].v
    THEN /\ editor' = [editor EXCEPT ![s] = e.code]
         /\ codeRef' = [codeRef EXCEPT ![s] = e.code]
         /\ outbox' = [outbox EXCEPT ![s] = Append(@, CodeMsg(join[s].room, e.code.v, Home))]
         /\ lastCursorPositionRef' =
                [lastCursorPositionRef EXCEPT ![s] = WithSender(@, e)]
         /\ cursorsRef' = [cursorsRef EXCEPT
                             ![s] = Reapply(@, lastCursorPositionRef'[s], userColors[s])]
         /\ UNCHANGED <<clientsState, lang, userColors>>
    ELSE IF e.code = Undef
    THEN /\ UNCHANGED <<clientsState, editor, codeRef, lang, outbox, userColors>>
         /\ \/ UNCHANGED <<cursorsRef, lastCursorPositionRef>>
            \/ /\ lastCursorPositionRef' =
                      [lastCursorPositionRef EXCEPT ![s] = WithSender(@, e)]
               /\ cursorsRef' = [cursorsRef EXCEPT
                                   ![s] = Reapply(@, lastCursorPositionRef'[s], userColors[s])]
    ELSE UNCHANGED <<clientsState, editor, codeRef, lang, outbox, decor>>

\* CURSOR_CHANGE listener: an event without a caret is ignored; otherwise the
\* caret (clamped to the text) becomes the sender's last known caret, the
\* sender gets a colour if it has none, and its decoration is drawn.
OnCursor(s, e) ==
    IF e.cursor = NoCursor
    THEN UNCHANGED <<clientsState, editor, codeRef, lang, outbox, decor>>
    ELSE /\ lastCursorPositionRef' = [lastCursorPositionRef EXCEPT ![s][e.socketId] = e.cursor]
         /\ userColors' = [userColors EXCEPT ![s] = @ \cup {e.socketId}]
         /\ cursorsRef' = [cursorsRef EXCEPT ![s] = @ \cup {e.socketId}]
         /\ UNCHANGED <<clientsState, editor, codeRef, lang, outbox>>

\* The client of s handles the next event the server sent it.
ClientRecv(s) ==
    /\ conn[s] = "open"
    /\ recv[s] < Len(sent[s])
    /\ LET e == sent[s][recv[s] + 1]
       IN CASE e.type = "joined" -> OnJoined(s, e)
            [] e.type = "language" -> OnLanguage(s, e)
            [] e.type = "disconnected" -> OnDisconnected(s, e)
            [] e.type = "code" -> OnCode(s, e)
            [] e.type = "cursor" -> OnCursor(s, e)
    /\ recv' = [recv EXCEPT ![s] = @ + 1]
    /\ UNCHANGED <<server, exec>>

\* Mutations the clients have emitted and the server has yet to handle.
Emitted ==
    LET Count(q) == Len(SelectSeq(q, LAMBDA m : m.type # "sync"))
        Sum[S \in SUBSET Sockets] ==
            IF S = {} THEN 0 ELSE LET t == CHOOSE t \in S : TRUE IN Count(outbox[t]) + Sum[S \ {t}]
    IN Sum[Sockets]

\* The user of s types: the editor reports the change, onCodeChange stores the
\* text in codeRef and emits CODE_CHANGE.
UserTypes(s, text, cursor) ==
    /\ conn[s] = "open"
    /\ join[s].stage # "none"
    /\ text # editor[s].v
    /\ seq + Emitted < MaxMut
    /\ editor' = [editor EXCEPT ![s] = Val(0, text, s)]
    /\ codeRef' = [codeRef EXCEPT ![s] = Val(0, text, s)]
    /\ outbox' = [outbox EXCEPT ![s] = Append(@, CodeMsg(join[s].room, text, cursor))]
    /\ UNCHANGED <<server, recv, clientsState, lang, decor, exec>>

\* handleLangChange: setLanguage(lang), then LANGUAGE_CHANGE is emitted.
UserPicks(s, language) ==
    /\ conn[s] = "open"
    /\ join[s].stage # "none"
    /\ seq + Emitted < MaxMut
    /\ lang' = [lang EXCEPT ![s] = Val(0, language, s)]
    /\ outbox' = [outbox EXCEPT ![s] = Append(@, LangMsg(join[s].room, language))]
    /\ UNCHANGED <<server, recv, clientsState, editor, codeRef, decor, exec>>

\* The server handles the oldest event the client of s emitted.
Deliver(s) ==
    /\ conn[s] = "open"
    /\ outbox[s] # <<>>
    /\ LET m == Head(outbox[s])
       IN CASE m.type = "code" -> CodeChange(s, m.roomId, m.code, m.cursor)
            [] m.type = "language" -> LanguageChange(s, m.roomId, m.language)
            [] m.type = "sync" -> SyncCode(s, m.socketId, m.code, m.language)
    /\ outbox' = [outbox EXCEPT ![s] = Tail(@)]
    /\ UNCHANGED <<recv, clientsState, editor, codeRef, lang, decor, exec>>

\* ------------------------------------------------------------ /api/execute
\* What a remote execution service can answer: the call is rejected (network
\* error, timeout, non-2xx status), or a 2xx body arrives.  Of a body the
\* runners read whether it is empty, its error field and its output field
\* ("undefined": the field is missing).
Details == {"ECONNREFUSED", "timeout exceeded", "status 503"}

Body(empty, error, output) == [empty |-> empty, error |-> error, output |-> output]

Bodies(i) ==
    {Body(FALSE, "", <<"out1", "out2", "out3">>[i]),
     Body(FALSE, "SyntaxError", "undefined"),
     Body(FALSE, "", "undefined"),
     Body(TRUE, "", "undefined")}

Responses(i) ==
    {[kind |-> "error", detail |-> d, body |-> Body(TRUE, "", "undefined")] : d \in Details}
    \cup {[kind |-> "body", detail |-> "", body |-> b] : b \in Bodies(i)}

Threw(detail) == [outcome |-> "throw", detail |-> detail, output |-> "undefined"]

Returned(truthy, output) ==
    [outcome |-> IF truthy THEN "data" ELSE "nothing", detail |-> "", output |-> output]

\* The three runners, in the order of the array: what runTask() does with the
\* answer of its service.
Runner(i, resp) ==
    IF resp.kind = "error" THEN Threw(resp.detail)
    ELSE CASE i = 1 -> IF ~resp.body.empty /\ resp.body.error # ""
                       THEN Threw(resp.body.error)
                       ELSE Returned(TRUE, resp.body.output)
           [] i = 2 -> Returned(TRUE, resp.body.output)
           [] i = 3 -> Returned(~resp.body.empty, resp.body.output)

Runners == 3

\* The details of the runner calls that threw.
Thrown(log) == {log[j].res.detail : j \in {j \in 1..Len(log) : log[j].res.outcome = "throw"}}

\* OkResponse passing the first failure on to the caller.
OkResponseWithWarning(log, data) ==
    [status |-> 200, output |-> data.output,
     message |-> IF Thrown(log) = {} THEN "" ELSE CHOOSE d \in Thrown(log) : TRUE]

\* res.json(data)
OkResponse(log, data) == [status |-> 200, output |-> data.output, message |-> ""]

\* FailResponse telling the caller why the last runner failed.
FailResponseDetail(log) ==
    [status |-> 500, output |-> "",
     message |-> IF Thrown(log) = {} THEN "" ELSE CHOOSE d \in Thrown(log) : TRUE]

\* res.status(500).json({message: "All execution engines are currently down. ..."})
FailResponse(log) == [status |-> 500, output |-> "", message |-> AllDown]

\* What the framework answers when the handler's promise rejects, if it
\* answers at all.
FrameworkError == [status |-> 500, output |-> "", message |-> "TypeError"]

\* The handler up to its first await.  files[0] of a body without files
\* throws before the handler sends a response: the handler's promise rejects,
\* and the request is left unanswered or is answered by the framework's error
\* handler, depending on the framework's version.
ExRequest(hasFiles) ==
    /\ exPc = "idle"
    /\ exPc' = IF hasFiles THEN "await" ELSE "crashed"
    /\ exRes' \in IF hasFiles THEN {exRes} ELSE {NoResponse, FrameworkError}
    /\ UNCHANGED exLog
    /\ UNCHANGED <<server, client>>

\* ExRunner going on to the next runner after one has returned data.
ExRunnerKeepsGoing(resp) ==
    LET i == Len(exLog) + 1
        res == Runner(i, resp)
        log == Append(exLog, [runner |-> i, res |-> res])
    IN /\ exPc = "await"
       /\ exLog' = log
       /\ IF i = Runners
          THEN /\ exPc' = "done"
               /\ exRes' = IF res.outcome = "data" THEN OkResponse(log, res)
                            ELSE FailResponse(log)
          ELSE exPc' = "await" /\ exRes' = exRes
       /\ UNCHANGED <<server, client>>

\* The awaited runner settles: its data, when truthy, is the response; a throw
\* or falsy data moves on to the next runner; after the last runner the
\* failure response is sent.
ExRunner(resp) ==
    LET i == Len(exLog) + 1
        res == Runner(i, resp)
        log == Append(exLog, [runner |-> i, res |-> res])
    IN /\ exPc = "await"
       /\ exLog' = log
       /\ IF res.outcome = "data"
          THEN exPc' = "done" /\ exRes' = OkResponse(log, res)
          ELSE IF i = Runners
               THEN exPc' = "done" /\ exRes' = FailResponse(log)
               ELSE exPc' = "await" /\ exRes' = exRes
       /\ UNCHANGED <<server, client>>

\* ------------------------------------------------------------------ system
\* The JOIN handler and its continuations, for sockets S, room ids R, usernames U.
Joins(S, R, U) ==
    \/ \E s \in S, r \in R, u \in U : JoinStart(s, r, u) /\ UNCHANGED <<client, exec>>
    \/ \E s \in S : LoadFound(s) /\ UNCHANGED <<client, exec>>
    \/ \E s \in S : LoadMissing(s) /\ UNCHANGED <<client, exec>>
    \/ \E s \in S : CreateOk(s) /\ UNCHANGED <<client, exec>>
    \/ \E s \in S : CreateDuplicate(s) /\ UNCHANGED <<client, exec>>

\* Timer expiry and the completion of a durable write.
Store ==
    \/ \E t \in timers : TimerExpires(t) /\ UNCHANGED <<client, exec>>
    \/ \E w \in writes : WriteOk(w) /\ UNCHANGED <<client, exec>>

\* Store errors.
Failures ==
    \/ \E s \in Sockets : LoadFail(s) /\ UNCHANGED <<client, exec>>
    \/ \E w \in writes : WriteFail(w) /\ UNCHANGED <<client, exec>>

\* A socket closes.
Leaves(S) ==
    \E s \in S : Disconnecting(s) /\ UNCHANGED <<client, exec>>

Next ==
    \/ Joins(Sockets, Rooms, Users)
    \/ \E s \in Sockets, r \in Rooms, t \in Texts, c \in Cursors :
          CodeChange(s, r, t, c) /\ UNCHANGED <<client, exec>>
    \/ \E s \in Sockets, r \in Rooms, l \in Langs :
          LanguageChange(s, r, l) /\ UNCHANGED <<client, exec>>
    \/ Leaves(Sockets)
    \/ Store
    \/ Failures

\* Every behaviour of the server, store failures included.
Spec == Init /\ [][Next]_vars

\* One connection working in one room: text and language changes; the store
\* never fails.
NextSolo ==
    \/ Joins({"s1"}, {"r1"}, {"ann"})
    \/ \E t \in Texts : CodeChange("s1", "r1", t, NoCursor) /\ UNCHANGED <<client, exec>>
    \/ \E l \in Langs : LanguageChange("s1", "r1", l) /\ UNCHANGED <<client, exec>>
    \/ Leaves({"s1"})
    \/ Store

SpecSolo == Init /\ [][NextSolo]_vars

\* Two connections sharing one room: text changes; the store never fails.
NextDuo ==
    \/ Joins(Sockets, {"r1"}, {"ann"})
    \/ \E s \in Sockets : CodeChange(s, "r1", "a", NoCursor) /\ UNCHANGED <<client, exec>>
    \/ Leaves(Sockets)
    \/ Store

SpecDuo == Init /\ [][NextDuo]_vars

\* Two clients and the server they share, in one room: s1 opens the room and
\* edits, s2 joins once s1 has joined and may leave.  Each event a client
\* emits is handled by the server, each event the server sends is handled by
\* the client; no timer expires.
NextClient ==
    \/ JoinStart("s1", "r1", "ann") /\ UNCHANGED <<client, exec>>
    \/ LoadFound("s1") /\ UNCHANGED <<client, exec>>
    \/ LoadMissing("s1") /\ UNCHANGED <<client, exec>>
    \/ CreateOk("s1") /\ UNCHANGED <<client, exec>>
    \/ join["s1"].stage = "done" /\ JoinStart("s2", "r1", "ann") /\ UNCHANGED <<client, exec>>
    \/ \E s \in Sockets : ClientRecv(s)
    \/ UserTypes("s1", "a", Home)
    \/ UserPicks("s1", "python")
    \/ \E s \in Sockets : Deliver(s)
    \/ Leaves({"s2"})

SpecClient == Init /\ [][NextClient]_vars

\* Two connections and one room: text changes with and without a caret, sent
\* by members while the other connection is a member, has left or has yet
\* to join.
NextFan ==
    \/ Joins(Sockets, {"r1"}, {"ann"})
    \/ \E s \in Sockets, c \in Cursors :
          CodeChange(s, "r1", "a", c) /\ UNCHANGED <<client, exec>>
    \/ Leaves(Sockets)

SpecFan == Init /\ [][NextFan]_vars

\* Two rooms with one connection each: text and language changes in both
\* rooms, timers expiring and writes completing.
NextRooms ==
    \/ Joins({"s1"}, {"r1"}, {"ann"})
    \/ Joins({"s2"}, {"r2"}, {"ann"})
    \/ \E s \in Sockets, r \in Rooms :
          CodeChange(s, r, "a", NoCursor) /\ UNCHANGED <<client, exec>>
    \/ \E s \in Sockets, r \in Rooms :
          LanguageChange(s, r, "python") /\ UNCHANGED <<client, exec>>
    \/ Store

SpecRooms == Init /\ [][NextRooms]_vars

\* Two connections in one room, s1 changing text and language, while the
\* store may reject any write.
NextDuoFail ==
    \/ Joins(Sockets, {"r1"}, {"ann"})
    \/ CodeChange("s1", "r1", "a", NoCursor) /\ UNCHANGED <<client, exec>>
    \/ LanguageChange("s1", "r1", "python") /\ UNCHANGED <<client, exec>>
    \/ Store
    \/ \E w \in writes : WriteFail(w) /\ UNCHANGED <<client, exec>>

SpecDuoFail == Init /\ [][NextDuoFail]_vars

\* Caret events the server has sent so far.
Carets ==
    LET Count(q) == Len(SelectSeq(q, LAMBDA e : e.type = "cursor"))
        Sum[S \in SUBSET Sockets] ==
            IF S = {} THEN 0 ELSE LET t == CHOOSE t \in S : TRUE IN Count(sent[t]) + Sum[S \ {t}]
    IN Sum[Sockets]

\* Two connections in one room: s1 changes the text, both move their carets,
\* timers expire; no write completes, so no create meets a duplicate.
NextCaret ==
    \/ \E s \in Sockets : JoinStart(s, "r1", "ann") /\ UNCHANGED <<client, exec>>
    \/ \E s \in Sockets : LoadFound(s) /\ UNCHANGED <<client, exec>>
    \/ \E s \in Sockets : LoadMissing(s) /\ UNCHANGED <<client, exec>>
    \/ \E s \in Sockets : CreateOk(s) /\ UNCHANGED <<client, exec>>
    \/ \E c \in Cursors : CodeChange("s1", "r1", "a", c) /\ UNCHANGED <<client, exec>>
    \/ \E s \in Sockets :
          /\ s \in Range(rooms["r1"])
          /\ Carets < MaxCur
          /\ CursorChange(s, "r1", Home)
          /\ UNCHANGED <<client, exec>>
    \/ \E t \in timers : TimerExpires(t) /\ UNCHANGED <<client, exec>>

SpecCaret == Init /\ [][NextCaret]_vars

\* One request to the execution gateway.
NextExec ==
    \/ \E hasFiles \in BOOLEAN : ExRequest(hasFiles)
    \/ exPc = "await" /\ \E resp \in Responses(Len(exLog) + 1) : ExRunner(resp)

SpecExec == Init /\ [][NextExec]_vars

\* s1 watches the carets of s2 in one room: s2 joins at any time, changes the
\* text, moves its caret and leaves, while the client of s1 handles what the
\* server sends it; no timer expires.
NextGhost ==
    \/ \E s \in Sockets : JoinStart(s, "r1", "ann") /\ UNCHANGED <<client, exec>>
    \/ \E s \in Sockets : LoadFound(s) /\ UNCHANGED <<client, exec>>
    \/ \E s \in Sockets : LoadMissing(s) /\ UNCHANGED <<client, exec>>
    \/ \E s \in Sockets : CreateOk(s) /\ UNCHANGED <<client, exec>>
    \/ \E c \in Cursors : CodeChange("s2", "r1", "a", c) /\ UNCHANGED <<client, exec>>
    \/ /\ "s2" \in Range(rooms["r1"])
       /\ Carets < MaxCur
       /\ CursorChange("s2", "r1", Home)
       /\ UNCHANGED <<client, exec>>
    \/ ClientRecv("s1")
    \/ Leaves({"s2"})

SpecGhost == Init /\ [][NextGhost]_vars

\* Two connections in one room changing the language, with the store.
NextLang ==
    \/ Joins(Sockets, {"r1"}, {"ann"})
    \/ \E s \in Sockets, l \in Langs :
          LanguageChange(s, "r1", l) /\ UNCHANGED <<client, exec>>
    \/ Store

SpecLang == Init /\ [][NextLang]_vars

\* Joins that name the empty roomId, with text-changes and the store.
NextEmpty ==
    \/ \E s \in Sockets : JoinStart(s, "", "ann") /\ UNCHANGED <<client, exec>>
    \/ \E s \in Sockets : LoadFound(s) /\ UNCHANGED <<client, exec>>
    \/ \E s \in Sockets : LoadMissing(s) /\ UNCHANGED <<client, exec>>
    \/ \E s \in Sockets : CreateInvalid(s) /\ UNCHANGED <<client, exec>>
    \/ \E s \in Sockets : CodeChange(s, "", "a", NoCursor) /\ UNCHANGED <<client, exec>>
    \/ Store

SpecEmpty == Init /\ [][NextEmpty]_vars

\* Two clients in one room whose users both type: s1 types "a", s2 empties its
\* editor; the clients and the server exchange what follows from it.
NextEcho ==
    \/ JoinStart("s1", "r1", "ann") /\ UNCHANGED <<client, exec>>
    \/ LoadFound("s1") /\ UNCHANGED <<client, exec>>
    \/ LoadMissing("s1") /\ UNCHANGED <<client, exec>>
    \/ CreateOk("s1") /\ UNCHANGED <<client, exec>>
    \/ join["s1"].stage = "done" /\ JoinStart("s2", "r1", "ann") /\ UNCHANGED <<client, exec>>
    \/ \E s \in Sockets : ClientRecv(s)
    \/ UserTypes("s1", "a", Home)
    \/ UserTypes("s2", "", Home)
    \/ \E s \in Sockets : Deliver(s)

SpecEcho == Init /\ [][NextEcho]_vars

\* The transport hands every emitted event to the server and every sent event
\* to its client, and the event loops run the handlers.
SpecEchoFair ==
    /\ SpecEcho
    /\ WF_vars(\E s \in Sockets : Deliver(s))
    /\ WF_vars(\E s \in Sockets : ClientRecv(s))

\* s1 works in r1 while s2, which joins no room, sends mutations naming r1.
NextOutsider ==
    \/ Joins({"s1"}, {"r1"}, {"ann"})
    \/ CodeChange("s1", "r1", "a", NoCursor) /\ UNCHANGED <<client, exec>>
    \/ \E t \in Texts : CodeChangeHandler("s2", "r1", t, NoCursor) /\ UNCHANGED <<client, exec>>
    \/ LanguageChangeHandler("s2", "r1", "python") /\ UNCHANGED <<client, exec>>
    \/ Store

SpecOutsider == Init /\ [][NextOutsider]_vars

\* One connection working in one room while the store may reject any write.
NextSoloFail ==
    \/ NextSolo
    \/ \E w \in writes : WriteFail(w) /\ UNCHANGED <<client, exec>>

SpecSoloFail == Init /\ [][NextSoloFail]_vars

\* ------------------------------------------------------------------ claims
\* Nothing of room r is pending: no armed timer, no write in flight, no JOIN
\* handler waiting for the store.
Quiet(r) ==
    /\ \A t \in timers : t.room # r
    /\ \A w \in writes : w.room # r
    /\ \A s \in Sockets : join[s].room = r => join[s].stage = "done"

Durable(r, kind) == IF kind = "text" THEN db[r].code ELSE db[r].language

Accepted(r, kind) == IF kind = "text" THEN accepted[r].code ELSE accepted[r].language

\* C1: once the only member of a room has sent a text-change and left, and
\* the flush has run to its end, the durable record holds the text of the last
\* text-change the server accepted, whatever that text is.
C1_FlushKeepsLastEdit ==
    \A r \in Rooms :
        (rooms[r] = <<>> /\ Quiet(r) /\ accepted[r].code.n > 0)
            => (db[r].exists /\ db[r].code = accepted[r].code)

\* C2: in every step the durable text and the durable language of a room stay
\* or move to a value accepted later: the record never goes back to the value
\* of an earlier-accepted mutation.
C2_DurableMonotonic ==
    [][\A r \in Rooms :
          db[r].exists => /\ db'[r].code.n >= db[r].code.n
                          /\ db'[r].language.n >= db[r].language.n]_vars

\* C3: a timer-expiry write of a room's text is issued only by the timer of
\* the last text-change accepted for the room.  A timer armed by an earlier
\* text-change expires less than DText after that later text-change, so its
\* write would come before the quiet period has elapsed and would be a second
\* write for the burst.
C3_WriteOnlyAfterQuietPeriod ==
    [][\A w \in writes' \ writes :
          (w.src = "timer" /\ w.kind = "text") => w.value = accepted[w.room].code]_vars

\* Position i of what socket s was sent is the broadcast of a text-change.
IsBroadcast(s, i) == sent[s][i].type = "code" /\ sent[s][i].socketId # ""

\* C4: every socket is sent the text-change broadcasts in the order in which
\* the server accepted the text-changes.
C4_BroadcastInAcceptOrder ==
    \A s \in Sockets : \A i, j \in 1..Len(sent[s]) :
        (i < j /\ IsBroadcast(s, i) /\ IsBroadcast(s, j))
            => sent[s][i].code.n < sent[s][j].code.n

C4_Witness ==
    \E s \in Sockets : \E i, j \in 1..Len(sent[s]) :
        i < j /\ IsBroadcast(s, i) /\ IsBroadcast(s, j)

\* C5: while the first joiner of a room that has a durable record is still
\* waiting for that record (it has been sent neither the stored text nor the
\* stored language), no text-change of another member has been sent to it.
C5_StoredStateBeforeLiveEdits ==
    \A s \in Sockets :
        (join[s].stage = "find" /\ db[join[s].room].exists)
            => \A i \in 1..Len(sent[s]) : ~(IsBroadcast(s, i) /\ sent[s][i].socketId # s)

\* C6: at most one durable write is in flight for a (room, kind) pair.
C6_OneWriteInFlight ==
    \A w1, w2 \in writes : (w1.room = w2.room /\ w1.kind = w2.kind) => w1 = w2

\* C7: the step in which the last member of a room leaves disarms every timer
\* of the room and leaves, for each kind whose accepted value is not in the
\* durable record, a write of that value in flight.
C7_FlushOnLastLeave ==
    [][\A s \in Sockets, r \in Rooms :
          (rooms[r] = <<s>> /\ conn[s] = "open" /\ conn'[s] = "closed")
              => /\ \A t \in timers' : t.room # r
                 /\ \A kind \in {"text", "language"} :
                       (Accepted(r, kind).n > 0 /\ Durable(r, kind) # Accepted(r, kind))
                           => \E w \in writes' : /\ w.room = r
                                                 /\ w.kind = kind
                                                 /\ w.value = Accepted(r, kind)]_vars

\* C8: once a mutation of a kind has been accepted for a room, roomState holds
\* the value of the last accepted mutation of that kind, and that value is not
\* older than the durable one.
C8_MemoryHoldsLatest ==
    \A r \in Rooms :
        /\ accepted[r].code.n > 0 =>
              /\ roomState[r].present
              /\ roomState[r].code = accepted[r].code
              /\ db[r].exists => roomState[r].code.n >= db[r].code.n
        /\ accepted[r].language.n > 0 =>
              /\ roomState[r].present
              /\ roomState[r].language = accepted[r].language
              /\ db[r].exists => roomState[r].language.n >= db[r].language.n

\* C9: when no member has left, every timer has expired and every write has
\* completed, the durable record holds the last accepted text and language.
\* Nothing but a further mutation changes the record after such a state, so
\* a state of this kind with another record is one the record never leaves.
C9_DurableCatchesUp ==
    \A r \in Rooms :
        (Quiet(r) /\ \A s \in Sockets : conn[s] = "open")
            => \A kind \in {"text", "language"} :
                  Accepted(r, kind).n > 0
                      => (db[r].exists /\ Durable(r, kind) = Accepted(r, kind))

\* C10: round trip through the store.  A write that completes leaves exactly
\* its value in the field it names; and when the load of a room's first join
\* finds the document, the joining connection is sent exactly the stored text
\* and then the stored language.
C10_RoundTrip ==
    [][/\ \A w \in writes \ writes' :
             db' # db => /\ db'[w.room].exists
                         /\ Durable(w.room, w.kind)' = w.value
                         /\ db[w.room].exists =>
                               \A k \in {"text", "language"} \ {w.kind} :
                                   Durable(w.room, k)' = Durable(w.room, k)
       /\ \A s \in Sockets :
             (join[s].stage = "find" /\ join'[s].result = "found" /\ conn[s] = "open")
                 => /\ Len(sent'[s]) >= Len(sent[s]) + 2
                    /\ sent'[s][Len(sent[s]) + 1] = CodeEvt(db[join[s].room].code)
                    /\ sent'[s][Len(sent[s]) + 2] = LangEvt(db[join[s].room].language)]_vars

\* Socket s was sent something that shows socket o in its room.
Saw(s, o) ==
    \E i \in 1..Len(sent[s]) :
        sent[s][i].type \in {"joined", "disconnected", "code"} /\ sent[s][i].socketId = o

\* A connection o put a text into the store and left; a connection s that
\* never shared the room with o then joined the empty room and was sent that
\* text by the load.
C10_Witness ==
    \E s, o \in Sockets :
        /\ s # o
        /\ conn[o] = "closed"
        /\ ~Saw(s, o)
        /\ join[s].result = "found"
        /\ \E i \in 1..Len(sent[s]) :
              /\ sent[s][i].type = "code"
              /\ sent[s][i].socketId = ""
              /\ sent[s][i].code.by = o
              /\ sent[s][i].code = db[join[s].room].code

Slot(r, kind) == IF kind = "text" THEN dbDebounce[r] ELSE saveLanguageDebounce[r]

Pending(r, kind) == IF kind = "text" THEN roomState[r].code ELSE roomState[r].language

\* C11: when the write issued by an expired timer fails while it carries the
\* value last accepted for its room and kind, and that value is neither
\* durable nor carried by another write in flight, the marker and the pending
\* value are still recorded after the failure, so that a flush of the room
\* would issue a write of exactly that value.
C11_FailedWriteStaysPending ==
    [][\A w \in writes \ writes' :
          (/\ w.src = "timer"
           /\ db' = db
           /\ w.value = Accepted(w.room, w.kind)
           /\ Durable(w.room, w.kind) # w.value
           /\ \A u \in writes' : u.value # w.value)
          => /\ Slot(w.room, w.kind)' # NoTimer
             /\ Pending(w.room, w.kind)' = w.value
             /\ FlushWrites(w.room, w.kind, Slot(w.room, w.kind)', Pending(w.room, w.kind)')
                   = {Write(w.id, w.room, w.kind, w.value, "flush")}]_vars

\* Events appended to the log of socket s by the current step.
NewEvents(s) == {sent'[s][i] : i \in (Len(sent[s]) + 1)..Len(sent'[s])}

\* C12: a joined announcement, at the step that sends it, carries the member
\* list the room has at that moment and is sent to every member of the room.
C12_JoinedToAllWithFullList ==
    [][\A s \in Sockets : \A e \in NewEvents(s) :
          e.type = "joined"
          => LET r == join'[e.socketId].room
             IN /\ e.clients = getAllConnectedClients(rooms', userSocketMap', r)
                /\ \A m \in Range(rooms'[r]) : e \in NewEvents(m)]_vars

\* The event the client of s handles in the current step, if it handles one.
Handles(s, e) == recv'[s] = recv[s] + 1 /\ e = sent[s][recv'[s]]

\* C13: when a socket disconnects, every other member of its room is sent
\* one disconnected event naming it and the room's pending state stays as it
\* is; a client that handles a disconnected event drops from its member list
\* exactly the entries with that socketId and keeps its text.
C13_DepartureLeavesOthers ==
    [][/\ \A s \in Sockets :
            (conn[s] = "open" /\ conn'[s] = "closed")
            => /\ \A t \in Sockets \ {s} :
                    NewEvents(t) =
                        IF conn[t] = "open" /\ \E r \in Rooms : {s, t} \subseteq Range(rooms[r])
                        THEN {[type |-> "disconnected", socketId |-> s,
                               username |-> userSocketMap[s]]}
                        ELSE {}
               /\ UNCHANGED <<roomState, editor, codeRef>>
       /\ \A t \in Sockets : \A i \in 1..Len(sent[t]) :
            (Handles(t, sent[t][i]) /\ sent[t][i].type = "disconnected")
            => /\ clientsState'[t] = SelectSeq(clientsState[t],
                                       LAMBDA c : c.socketId # sent[t][i].socketId)
               /\ UNCHANGED <<editor, codeRef, lang>>]_vars

\* s1 has handled the departure of s2, which its member list named before:
\* it still lists itself and shows the text it had typed.
C13_Witness ==
    /\ conn["s2"] = "closed"
    /\ recv["s1"] = Len(sent["s1"])
    /\ \E i \in 1..Len(sent["s1"]) : sent["s1"][i].type = "disconnected"
    /\ \E i \in 1..Len(sent["s1"]) :
         /\ sent["s1"][i].type = "joined"
         /\ \E k \in 1..Len(sent["s1"][i].clients) : sent["s1"][i].clients[k].socketId = "s2"
    /\ Len(clientsState["s1"]) = 1
    /\ clientsState["s1"][1].socketId = "s1"
    /\ editor["s1"].v = "a"

\* C14: a text-change from member o of room r appends to the log of every
\* other member of r one event carrying the new text, the caret as supplied,
\* o's socket id and the username o joined with; the log of o and of every
\* socket outside r stays as it is.
C14_TextChangeFanOut ==
    [][\A o \in Sockets, r \in Rooms, t \in Texts, c \in Cursors :
          CodeChange(o, r, t, c)
          => \A m \in Sockets :
                sent'[m] = IF m # o /\ m \in Range(rooms[r])
                           THEN Append(sent[m],
                                       [type |-> "code", code |-> accepted'[r].code,
                                        cursor |-> c, socketId |-> o,
                                        username |-> join[o].username])
                           ELSE sent[m]]_vars

\* s2 was sent a text of s1 with its caret, s1 was sent no text of its own.
C14_Witness ==
    /\ \E i \in 1..Len(sent["s2"]) :
         /\ sent["s2"][i].type = "code"
         /\ sent["s2"][i].socketId = "s1"
         /\ sent["s2"][i].code.v = "a"
         /\ sent["s2"][i].cursor = Home
    /\ \A i \in 1..Len(sent["s1"]) :
         sent["s1"][i].type = "code" => sent["s1"][i].socketId # "s1"
    /\ accepted["r1"].code.by = "s1"

\* What the server holds for room r and what it has sent to r's members.
RoomView(r) ==
    <<roomState[r], dbDebounce[r], saveLanguageDebounce[r], db[r],
      {t \in timers : t.room = r}, {w \in writes : w.room = r},
      [s \in Range(rooms[r]) |-> sent[s]]>>

\* C15: a text-change or language-change for room a leaves the pending
\* values, the timers, the writes in flight, the durable record and the
\* members' logs of every other room as they are.
C15_OtherRoomsUntouched ==
    [][\A a \in Rooms :
          accepted'[a] # accepted[a] => \A b \in Rooms \ {a} : RoomView(b)' = RoomView(b)]_vars

\* Room r2 has a pending text, an armed timer, a write in flight and a record
\* when a mutation of room r1 is accepted after all mutations of r2.
C15_Witness ==
    /\ roomState["r2"].present
    /\ \E t \in timers : t.room = "r2"
    /\ \E w \in writes : w.room = "r2"
    /\ db["r2"].exists
    /\ sent["s2"] # <<>>
    /\ accepted["r1"].code.n = seq
    /\ accepted["r2"].code.n > 0
    /\ accepted["r2"].language.n > 0

\* C16: whatever timers are armed and writes are in flight or have failed, a
\* member's text-change can be taken, and the step that accepts it appends
\* the broadcast to the log of every other member; a step in which a write
\* completes or fails sends nothing to any socket.
C16_BroadcastDespiteStore ==
    [][/\ \A r \in Rooms :
            accepted'[r].code # accepted[r].code
            => \A m \in Range(rooms[r]) \ {accepted'[r].code.by} :
                  \E e \in NewEvents(m) : e.type = "code" /\ e.code = accepted'[r].code
       /\ writes \ writes' # {} => sent' = sent
       /\ \A s \in Sockets, r \in Rooms :
            (s \in Range(rooms[r]) /\ seq < MaxMut)
            => ENABLED (CodeChange(s, r, "a", NoCursor) /\ UNCHANGED <<client, exec>>)]_vars

\* The write of a language change has failed (its slot still names the timer
\* that issued it, the record holds another language), a text write is in
\* flight, and s2 has been sent a text accepted after that language change.
C16_Witness ==
    LET k == saveLanguageDebounce["r1"]
    IN /\ k # NoTimer
       /\ \A t \in timers : t.id # k
       /\ \A w \in writes : w.id # k
       /\ db["r1"].language.n # k
       /\ \E w \in writes : w.kind = "text"
       /\ \E i \in 1..Len(sent["s2"]) :
            sent["s2"][i].type = "code" /\ sent["s2"][i].code.n > k

\* C19: a step in which a caret event is sent leaves every timer, both slots,
\* the pending values, the writes in flight and the record as they are, and
\* sends that one event to members of the sender's room other than the
\* sender and nothing to anyone else.
C19_CaretOnlyFansOut ==
    [][\A s \in Sockets : \A e \in NewEvents(s) :
          e.type = "cursor"
          => /\ UNCHANGED <<timers, dbDebounce, saveLanguageDebounce, roomState, writes, db>>
             /\ \A m \in Sockets :
                  NewEvents(m) =
                      IF m # e.socketId /\ \E r \in Rooms : {m, e.socketId} \subseteq Range(rooms[r])
                      THEN {e} ELSE {}]_vars

\* s2 was sent a caret of s1 while a text timer was armed and a write was in
\* flight.
C19_Witness ==
    /\ sent["s2"] # <<>>
    /\ sent["s2"][Len(sent["s2"])].type = "cursor"
    /\ sent["s2"][Len(sent["s2"])].socketId = "s1"
    /\ timers # {}
    /\ writes # {}
    /\ roomState["r1"].present

\* C17: when the response has been sent and the last runner called returned
\* data while every runner before it threw, the response is a success that
\* carries exactly that runner's output and nothing of the earlier failures.
C17_FirstResultReturned ==
    (/\ exPc = "done"
     /\ exLog[Len(exLog)].res.outcome = "data"
     /\ \A j \in 1..(Len(exLog) - 1) : exLog[j].res.outcome = "throw")
    => /\ exRes.status = 200
       /\ exRes.output = exLog[Len(exLog)].res.output
       /\ exRes.message = ""
       /\ exRes.message \notin Thrown(exLog)

\* The first two runners threw and the third returned its output.
C17_Witness ==
    /\ exPc = "done"
    /\ Len(exLog) = 3
    /\ exLog[1].res.outcome = "throw"
    /\ exLog[2].res.outcome = "throw"
    /\ exLog[3].res.outcome = "data"
    /\ exRes.output = "out3"

\* C18: when the response has been sent and no runner returned data, the
\* response has status 500 and the one fixed, non-empty message, which is
\* none of the runners' error details.
C18_AllFailedFixedMessage ==
    (/\ exPc = "done"
     /\ \A j \in 1..Len(exLog) : exLog[j].res.outcome # "data")
    => /\ Len(exLog) = Runners
       /\ exRes.status = 500
       /\ exRes.message = AllDown
       /\ exRes.message # ""
       /\ exRes.message \notin Thrown(exLog)
       /\ exRes.output = ""

\* All three runners threw, each with another detail.
C18_Witness ==
    /\ exPc = "done"
    /\ Len(exLog) = 3
    /\ \A j \in 1..3 : exLog[j].res.outcome = "throw"
    /\ Cardinality(Thrown(exLog)) = 3
    /\ exRes.status = 500

\* Every event emitted by a client or sent by the server has been handled.
Settled ==
    \A s \in Sockets : conn[s] = "open" => outbox[s] = <<>> /\ recv[s] = Len(sent[s])

\* C20: once a connection that joined a room with members has handled all it
\* was sent and nothing is in transit, its client shows the text and the
\* language last accepted for the room.
C20_SyncDeliversCurrentState ==
    \A s \in Sockets :
        (/\ conn[s] = "open"
         /\ join[s].result = "skipped"
         /\ Settled)
        => /\ accepted[join[s].room].code.n > 0
              => editor[s].v = accepted[join[s].room].code.v
           /\ accepted[join[s].room].language.n > 0
              => lang[s].v = accepted[join[s].room].language.v

\* The client of s has handled a disconnected event for socket c.
SawLeave(s, c) ==
    \E i \in 1..recv[s] : sent[s][i].type = "disconnected" /\ sent[s][i].socketId = c

\* C21: once a client has handled the disconnected event for a socket, its
\* editor decorates no caret of that socket.
C21_NoCaretOfDeparted ==
    \A s \in Sockets, c \in Sockets : SawLeave(s, c) => c \notin cursorsRef[s]

\* C22: a client that applies a text update received from the server emits
\* nothing of its own.
C22_RemoteUpdateNotEchoed ==
    [][\A s \in Sockets :
          (recv'[s] = recv[s] + 1 /\ sent[s][recv'[s]].type = "code")
              => outbox'[s] = outbox[s]]_vars

\* C23: when a text timer expires, the text its callback writes is not older
\* than the text of the last text-change accepted for the room.
C23_ExpiryWritesLatestText ==
    [][\A t \in timers \ timers', w \in writes' \ writes :
          (t.kind = "text" /\ w.src = "timer" /\ w.id = t.id)
              => ~(w.value.n < accepted[w.room].code.n)]_vars

\* C24: a room's in-memory state is deleted only when no timer of the room is
\* armed and no write for the room is in flight.
C24_StateKeptWhileWritePending ==
    [][\A r \in Rooms :
          (roomState[r] # NoRoomState /\ roomState'[r] = NoRoomState)
              => /\ \A t \in timers' : t.room # r
                 /\ \A w \in writes' : w.room # r]_vars

\* The armed timers of one kind for room r.
KindTimers(r, kind) == {t \in timers : t.room = r /\ t.kind = kind}

\* C25: accepting a language-change leaves the room's text timer and its slot
\* as they are, and accepting a text-change leaves the room's language timer
\* and its slot as they are.
C25_TimersIndependent ==
    [][\A r \in Rooms :
          /\ accepted'[r].language # accepted[r].language
                => /\ KindTimers(r, "text")' = KindTimers(r, "text")
                   /\ dbDebounce'[r] = dbDebounce[r]
          /\ accepted'[r].code # accepted[r].code
                => /\ KindTimers(r, "language")' = KindTimers(r, "language")
                   /\ saveLanguageDebounce'[r] = saveLanguageDebounce[r]]_vars

\* Timers of both kinds are armed for one room: the later of the two events
\* was accepted while the other kind's timer was pending.
C25_Witness ==
    \E r \in Rooms : KindTimers(r, "text") # {} /\ KindTimers(r, "language") # {}

\* C26: when the load of a room's first join resolves with the stored
\* document, no connection other than that joiner is sent the stored text or
\* language.
C26_LoadReplayedToFirstJoinerOnly ==
    [][\A s \in Sockets :
          (join[s].stage = "find" /\ join'[s].stage = "done" /\ join'[s].result = "found")
              => \A m \in Sockets \ {s} :
                    \A e \in NewEvents(m) : e.type \notin {"code", "language"}]_vars

\* Socket s, a member of room r, disconnects in this step and other members
\* stay in r.
LeavesOthersIn(s, r) ==
    /\ s \in Range(rooms[r])
    /\ conn[s] = "open" /\ conn'[s] = "closed"
    /\ Range(rooms[r]) \ {s} # {}

LanguageScheduled(r) ==
    /\ \A t \in timers' : saveLanguageDebounce[r] = NoTimer \/ t.id # saveLanguageDebounce[r]
    /\ Timer(saveLanguageDebounce'[r], r, "language", accepted'[r].language) \in timers'
    /\ roomState'[r].language = accepted'[r].language

Creates(s) ==
    join[s].stage = "create" /\ join'[s].stage = "done" /\ join'[s].result = "created"

\* The durable record of room r holds the default text and language.
DurableDefaults(r) ==
    /\ db'[r].exists
    /\ db'[r].code.v = DefaultCode
    /\ db'[r].language.v = DefaultLanguage

C30_EmptyRoomJoinDropped ==
    [][\A s \in Sockets :
          (join[s].stage = "none" /\ join'[s].stage # "none" /\ join'[s].room = "")
              => /\ rooms' = rooms
                 /\ userSocketMap' = userSocketMap
                 /\ db' = db
                 /\ sent' = sent
                 /\ conn' = conn]_vars

\* C31: the runners of one request are called in the order of the array, each
\* at most once, and none is called after a runner has returned data.
C31_RunnersInOrderOnce ==
    /\ Len(exLog) <= Runners
    /\ \A j \in 1..Len(exLog) : exLog[j].runner = j
    /\ \A j \in 1..(Len(exLog) - 1) : exLog[j].res.outcome # "data"

\* The first runner threw, the second returned data and the third was not
\* called.
C31_Witness ==
    /\ exPc = "done"
    /\ Len(exLog) = 2
    /\ exLog[1].res.outcome = "throw"
    /\ exLog[2].res.outcome = "data"

\* C32: a success response never carries the answer of a runner whose service
\* replied without an output.
C32_MalformedNeverReturned ==
    (exPc = "done" /\ exRes.status = 200) => exRes.output # "undefined"

\* C38: once the handler of an execute request is over, the request has been
\* answered, either with a runner's data or with the all-engines-down failure.
C38_EveryRequestAnswered ==
    exPc \in {"done", "crashed"}
        => \/ exRes.status = 200
           \/ exRes.status = 500 /\ exRes.message = AllDown

\* Socket s shows text x, has handled all it was sent, and its one emitted
\* text-change, carrying x, is on its way to the server.
Shows(s, x) ==
    /\ editor[s].v = x
    /\ recv[s] = Len(sent[s])
    /\ Len(outbox[s]) = 1
    /\ outbox[s][1].type = "code"
    /\ outbox[s][1].code = x

\* The state right after s1 typed "a" and s2 emptied its editor at the same
\* time.
BothTyped == Shows("s1", "a") /\ Shows("s2", "")

C34_ArmedTimerIsInSlot ==
    \A t \in timers : Slot(t.room, t.kind) = t.id

\* C35: when the load of a connection resolves that joined a room after the
\* room's first and last member had left, the stored text and language it
\* replays are those last accepted for the room.
C35_RejoinLoadsLatest ==
    [][\A s \in Sockets :
          (/\ join[s].stage = "find"
           /\ join'[s].result = "found"
           /\ Range(rooms[join[s].room]) = {s}
           /\ \E c \in Sockets \ {s} : /\ conn[c] = "closed"
                                      /\ join[c].room = join[s].room
                                      /\ join[c].stage = "done"
                                      /\ join[c].result # "skipped")
              => /\ accepted[join[s].room].code.n > 0
                    => db[join[s].room].code = accepted[join[s].room].code
                 /\ accepted[join[s].room].language.n > 0
                    => db[join[s].room].language = accepted[join[s].room].language]_vars

\* C36: the sync-request a client emits on handling a joined announcement
\* carries the language the client displays at that moment.
C36_SyncCarriesShownLanguage ==
    [][\A s \in Sockets :
          (recv'[s] = recv[s] + 1 /\ sent[s][recv'[s]].type = "joined")
              => /\ Len(outbox'[s]) = Len(outbox[s]) + 1
                 /\ outbox'[s][Len(outbox'[s])].type = "sync"
                 /\ outbox'[s][Len(outbox'[s])].language.v = lang[s].v]_vars

\* C37: a text-change or language-change for room r accepted from a socket
\* that is not a member of r leaves what the members of r are sent, r's
\* pending values, its timers, its slots and its durable record as they are.
C37_OutsiderChangesNothing ==
    [][\A r \in Rooms, kind \in {"text", "language"} :
          (/\ Accepted(r, kind)' # Accepted(r, kind)
           /\ Accepted(r, kind)'.by \notin Range(rooms[r]))
              => /\ sent' = sent
                 /\ roomState'[r] = roomState[r]
                 /\ KindTimers(r, "text")' = KindTimers(r, "text")
                 /\ KindTimers(r, "language")' = KindTimers(r, "language")
                 /\ dbDebounce'[r] = dbDebounce[r]
                 /\ saveLanguageDebounce'[r] = saveLanguageDebounce[r]
                 /\ db'[r] = db[r]]_vars

\* C39: userSocketMap holds a username for a socket exactly while the socket
\* is in a room, and holds none for a socket that has disconnected, whatever
\* handlers and load completions ran before or run after.
C39_RegistryMatchesMembership ==
    \A s \in Sockets :
        /\ userSocketMap[s] # NoUser <=> \E r \in Rooms : s \in Range(rooms[r])
        /\ conn[s] = "closed" => userSocketMap[s] = NoUser

\* A socket joined, sent a text-change and disconnected, and its load
\* completed only then (it was never sent the stored text), while the other
\* socket is a member with its username registered.
C39_Witness ==
    \E s, o \in Sockets :
        /\ conn[s] = "closed"
        /\ join[s].result = "found"
        /\ \A i \in 1..Len(sent[s]) : sent[s][i].type # "code"
        /\ accepted[join[s].room].code.by = s
        /\ userSocketMap[s] = NoUser
        /\ conn[o] = "open"
        /\ userSocketMap[o] # NoUser

====
